---- MODULE Spec2Model ----
(***************************************************************************)
(* Model of the fusion core of the metasearch engine: rrf_fusion and       *)
(* combsum_fusion (fusion.py), canonicalize_url, deduplicate and           *)
(* minmax_normalize_scores (utils.py), and the fuse-then-deduplicate flow  *)
(* of app.py.                                                              *)
(*                                                                         *)
(* Result dicts live in a heap (object id -> record) and lists hold object *)
(* ids, because deduplicate and minmax_normalize_scores mutate the dicts   *)
(* in place and deduplicate keys empty-url items by id().  Scores are      *)
(* Python floats: IEEE-754 binary64 values, modelled bit-exactly for       *)
(* finite values with round-to-nearest-even.  Strings are sequences of    *)
(* one-character strings.                                                  *)
(***************************************************************************)
EXTENDS Integers, Sequences, FiniteSets, TLC

VARIABLES
    ranked_lists,   \* app.py: the per-source lists handed to the fusion function
    heap,           \* object id -> Result dict of the objects `results` refers to
    results,        \* the list (of object ids) last returned / about to be passed
    arg,            \* the list (of object ids) the last call received
    arg_heap,       \* the heap as it was when the last call started
    op,             \* the last call: "init", "rrf", "combsum", "dedup", "minmax", "canon"
    method,         \* the fusion function that produced the fused list, or "none"
    k,              \* the k the last rrf_fusion call was given
    calls,          \* how many deduplicate calls in a row ended in this state (at most 2)
    url_in,         \* canonicalize_url: the pieces the argument string is built from
    key_out         \* canonicalize_url: the returned string

vars == <<ranked_lists, heap, results, arg, arg_heap, op, method, k, calls, url_in, key_out>>


(***************************************************************************)
(* Python float (binary64).  A finite float is <<s, h, l, e>>: sign s      *)
(* (1 = negative), 53-bit significand M = h * 2^27 + l with                *)
(* 2^52 <= M < 2^53, value (-1)^s * M * 2^e.  Zero is <<0, 0, 0, 0>>.      *)
(* Every operation rounds to nearest, ties to even.  Exponents stay far    *)
(* from the subnormal and overflow ranges for the values used here.        *)
(***************************************************************************)
Limb == 2^27
HiOne == 2^25          \* h of a significand equal to 2^52
HiTop == 2^26          \* h bound: M < 2^53  <=>  h < 2^26

FZero == <<0, 0, 0, 0>>

\* Python's None in a score field: a value that is no float
None == <<-1, -1, -1, -1>>
FOne == <<0, HiOne, 0, -52>>

FIsZero(x) == x[2] = 0 /\ x[3] = 0

\* Right shift of the significand (h, l) by d bits: <<h', l', guard, sticky>>.
ShiftRight(h, l, d) ==
    IF d = 0 THEN <<h, l, 0, FALSE>>
    ELSE IF d <= 27 THEN
        LET low == l % (2^d)
        IN  << h \div (2^d),
               (l \div (2^d)) + (h % (2^d)) * (2^(27 - d)),
               low \div (2^(d - 1)),
               (low % (2^(d - 1))) # 0 >>
    ELSE IF d <= 54 THEN
        LET d2 == d - 27
            lowh == h % (2^d2)
        IN  << 0,
               h \div (2^d2),
               lowh \div (2^(d2 - 1)),
               (lowh % (2^(d2 - 1))) # 0 \/ l # 0 >>
    ELSE <<0, 0, 0, TRUE>>

\* Round the significand (h, l) with exponent e to nearest, ties to even.
RoundEven(s, h, l, e, guard, sticky) ==
    IF guard = 1 /\ (sticky \/ l % 2 = 1) THEN
        IF l + 1 < Limb THEN <<s, h, l + 1, e>>
        ELSE IF h + 1 < HiTop THEN <<s, h + 1, 0, e>>
        ELSE <<s, HiOne, 0, e + 1>>
    ELSE <<s, h, l, e>>

\* |x| < |y| for non-zero x, y (significands are normalised).
MagLess(x, y) ==
    \/ x[4] < y[4]
    \/ x[4] = y[4] /\ (x[2] < y[2] \/ (x[2] = y[2] /\ x[3] < y[3]))

\* |x| + |y| with sign s, for non-zero x, y.
MagAdd(s, x, y) ==
    LET big == IF x[4] >= y[4] THEN x ELSE y
        small == IF x[4] >= y[4] THEN y ELSE x
        sh == ShiftRight(small[2], small[3], big[4] - small[4])
        l0 == big[3] + sh[2]
        l1 == l0 % Limb
        h1 == big[2] + sh[1] + (l0 \div Limb)
    IN  IF h1 >= HiTop
        THEN RoundEven(s, h1 \div 2, (l1 \div 2) + (h1 % 2) * (2^26), big[4] + 1,
                       l1 % 2, sh[3] = 1 \/ sh[4])
        ELSE RoundEven(s, h1, l1, big[4], sh[3], sh[4])

\* Normalise the non-zero exact integer (h, l) < 2^53 at exponent e (left shifts).
RECURSIVE Normalise(_, _, _, _)
Normalise(s, h, l, e) ==
    IF h >= HiOne THEN <<s, h, l, e>>
    ELSE Normalise(s, 2 * h + ((2 * l) \div Limb), (2 * l) % Limb, e - 1)

\* |big| - |small| with sign s, for non-zero |big| > |small|.
MagSub(s, big, small) ==
    LET d == big[4] - small[4]
    IN  IF d <= 1 THEN
            \* exact: D = M_big * 2^d - M_small < 2^54, at exponent small[4]
            LET bl == (big[3] * (2^d)) % Limb
                bh == big[2] * (2^d) + ((big[3] * (2^d)) \div Limb)
                borrow == IF bl < small[3] THEN 1 ELSE 0
                dl == bl + borrow * Limb - small[3]
                dh == bh - small[2] - borrow
            IN  IF dh >= HiTop
                THEN RoundEven(s, dh \div 2, (dl \div 2) + (dh % 2) * (2^26),
                               small[4] + 1, dl % 2, FALSE)
                ELSE Normalise(s, dh, dl, small[4])
        ELSE
            \* three extra bits, at exponent big[4] - 3: X = 8 * M_big and
            \* Y = floor(M_small * 2^(3 - d)); sh[4] tells whether bits of M_small
            \* were dropped below Y
            LET sh == ShiftRight(small[2], small[3], d - 2)
                yl == (2 * sh[2] + sh[3]) % Limb
                yh == 2 * sh[1] + ((2 * sh[2] + sh[3]) \div Limb)
                xl == (8 * big[3]) % Limb
                xh == 8 * big[2] + ((8 * big[3]) \div Limb)
                sub == IF sh[4] THEN 1 ELSE 0
                t == yl + sub
                borrow == IF xl < t THEN 1 ELSE 0
                dl == xl + borrow * Limb - t
                dh == xh - yh - borrow
                \* D = (dh, dl) in [2^54, 2^56), true value D + f, 0 <= f < 1 (f > 0 iff sticky)
            IN  IF dh >= 2^28
                THEN \* 56 bits: drop 3
                     RoundEven(s, dh \div 8, (dl \div 8) + (dh % 8) * (2^24), big[4],
                               (dl \div 4) % 2, (dl % 4) # 0 \/ sh[4])
                ELSE \* 55 bits: drop 2
                     RoundEven(s, dh \div 4, (dl \div 4) + (dh % 4) * (2^25), big[4] - 1,
                               (dl \div 2) % 2, (dl % 2) # 0 \/ sh[4])

\* x + y
FAdd(x, y) ==
    IF FIsZero(x) THEN y
    ELSE IF FIsZero(y) THEN x
    ELSE IF x[1] = y[1] THEN MagAdd(x[1], x, y)
    ELSE IF MagLess(y, x) THEN MagSub(x[1], x, y)
    ELSE IF MagLess(x, y) THEN MagSub(y[1], y, x)
    ELSE FZero

FNeg(x) == IF FIsZero(x) THEN x ELSE <<1 - x[1], x[2], x[3], x[4]>>

\* x - y
FSub(x, y) == FAdd(x, FNeg(y))

\* x < y
FLess(x, y) ==
    IF FIsZero(x) THEN (~FIsZero(y) /\ y[1] = 0)
    ELSE IF FIsZero(y) THEN x[1] = 1
    ELSE IF x[1] # y[1] THEN x[1] = 1
    ELSE IF x[1] = 0 THEN MagLess(x, y)
    ELSE MagLess(y, x)

FLeq(x, y) == ~FLess(y, x)

\* Long division of significands, one quotient bit per step.  st is
\* <<bits still to produce, qh, ql, rh, rl>>: the quotient so far (qh, ql) and
\* the remainder (rh, rl), which stays below the divisor (dh, dl).
RECURSIVE DivBits(_, _, _)
DivBits(st, dh, dl) ==
    IF st[1] = 0 THEN st
    ELSE
        LET r2l == (2 * st[5]) % Limb
            r2h == 2 * st[4] + ((2 * st[5]) \div Limb)
            ge == r2h > dh \/ (r2h = dh /\ r2l >= dl)
            borrow == IF ge /\ r2l < dl THEN 1 ELSE 0
            bit == IF ge THEN 1 ELSE 0
        IN  DivBits(<< st[1] - 1,
                       2 * st[2] + ((2 * st[3] + bit) \div Limb),
                       (2 * st[3] + bit) % Limb,
                       IF ge THEN r2h - dh - borrow ELSE r2h,
                       IF ge THEN r2l + borrow * Limb - dl ELSE r2l >>,
                    dh, dl)

\* x / y for non-zero y
FDiv(x, y) ==
    IF FIsZero(x) THEN FZero
    ELSE
        LET s == (x[1] + y[1]) % 2
            ge == x[2] > y[2] \/ (x[2] = y[2] /\ x[3] >= y[3])
            \* the first quotient bit is 1: the remainder starts as M_x - M_y when
            \* M_x >= M_y, and as 2 M_x - M_y otherwise
            nl == IF ge THEN x[3] ELSE (2 * x[3]) % Limb
            nh == IF ge THEN x[2] ELSE 2 * x[2] + ((2 * x[3]) \div Limb)
            borrow == IF nl < y[3] THEN 1 ELSE 0
            e == IF ge THEN x[4] - y[4] - 52 ELSE x[4] - y[4] - 53
            q == DivBits(<<52, 0, 1, nh - y[2] - borrow, nl + borrow * Limb - y[3]>>,
                         y[2], y[3])
            \* guard: 2 * remainder >= divisor; sticky: 2 * remainder > divisor
            g2l == (2 * q[5]) % Limb
            g2h == 2 * q[4] + ((2 * q[5]) \div Limb)
            gge == g2h > y[2] \/ (g2h = y[2] /\ g2l >= y[3])
            geq == g2h = y[2] /\ g2l = y[3]
        IN  RoundEven(s, q[2], q[3], e, IF gge THEN 1 ELSE 0, gge /\ ~geq)

\* float(n) for an integer 0 <= n < 2^26 (exact)
RECURSIVE BitLen(_)
BitLen(n) == IF n = 0 THEN 0 ELSE 1 + BitLen(n \div 2)

FromInt(n) ==
    IF n = 0 THEN FZero
    ELSE LET bl == BitLen(n) IN <<0, n * (2^(26 - bl)), 0, bl - 53>>


\* 1.0 / n for an integer n >= 1: the same value as FDiv(FOne, FromInt(n)); for
\* n < 2^10 the long division takes its 52 quotient bits in three chunks.
FRecip(n) ==
    IF n >= 2^10 THEN FDiv(FOne, FromInt(n))
    ELSE
        LET s == BitLen(n - 1)              \* 2^s / n is in [1, 2)
            t1 == ((2^s) - n) * (2^20)
            t2 == (t1 % n) * (2^20)
            t3 == (t2 % n) * (2^12)
            q1 == t1 \div n
            q2 == t2 \div n
            q3 == t3 \div n
            r == t3 % n
        IN  RoundEven(0, HiOne + q1 * 32 + (q2 \div (2^15)), (q2 % (2^15)) * (2^12) + q3,
                      -s - 52, IF 2 * r >= n THEN 1 ELSE 0, 2 * r > n)

(***************************************************************************)
(* Strings are sequences of characters.                                    *)
(***************************************************************************)
UpperLetters == <<"A","B","C","D","E","F","G","H","I","J","K","L","M",
                  "N","O","P","Q","R","S","T","U","V","W","X","Y","Z">>
LowerLetters == <<"a","b","c","d","e","f","g","h","i","j","k","l","m",
                  "n","o","p","q","r","s","t","u","v","w","x","y","z">>
Whitespace == {" ", "\n", "\t"}

\* str.lower(), one character
LowerChar(c) ==
    IF \E i \in 1..26 : UpperLetters[i] = c
    THEN LowerLetters[CHOOSE i \in 1..26 : UpperLetters[i] = c]
    ELSE c

\* str.upper(), one character
UpperChar(c) ==
    IF \E i \in 1..26 : LowerLetters[i] = c
    THEN UpperLetters[CHOOSE i \in 1..26 : LowerLetters[i] = c]
    ELSE c

Lower(u) == [i \in 1..Len(u) |-> LowerChar(u[i])]

\* str.strip()
RECURSIVE LStrip(_)
LStrip(u) == IF u # <<>> /\ Head(u) \in Whitespace THEN LStrip(Tail(u)) ELSE u

RECURSIVE RStrip(_)
RStrip(u) ==
    IF u # <<>> /\ u[Len(u)] \in Whitespace THEN RStrip(SubSeq(u, 1, Len(u) - 1)) ELSE u

Strip(u) == RStrip(LStrip(u))

StartsWith(u, p) == Len(u) >= Len(p) /\ SubSeq(u, 1, Len(p)) = p

Drop(u, n) == SubSeq(u, n + 1, Len(u))

HttpScheme == <<"h","t","t","p",":","/","/">>
HttpsScheme == <<"h","t","t","p","s",":","/","/">>
WwwDot == <<"w","w","w",".">>

\* re.sub(r"^https?://", "", u)
StripSchemeKeepWww(u) ==
    IF StartsWith(u, HttpScheme) THEN Drop(u, 7)
    ELSE IF StartsWith(u, HttpsScheme) THEN Drop(u, 8)
    ELSE u

\* re.sub(r"^https?://(www\.)?", "", u)
StripScheme(u) ==
    LET rest == IF StartsWith(u, HttpScheme) THEN Drop(u, 7)
                ELSE IF StartsWith(u, HttpsScheme) THEN Drop(u, 8)
                ELSE u
        matched == StartsWith(u, HttpScheme) \/ StartsWith(u, HttpsScheme)
    IN  IF matched /\ StartsWith(rest, WwwDot) THEN Drop(rest, 4) ELSE rest

\* re.sub(r"[#?].*$", "", u): "." does not match a newline, and "$" matches at
\* the end of the string or just before a newline that ends the string.
StripQuery(u) ==
    LET Matches(i) ==
            /\ u[i] \in {"#", "?"}
            /\ \A j \in (i + 1)..Len(u) : u[j] = "\n" => j = Len(u)
        starts == {i \in 1..Len(u) : Matches(i)}
    IN  IF starts = {} THEN u
        ELSE LET i == CHOOSE m \in starts : \A n \in starts : m <= n
             IN  SubSeq(u, 1, i - 1) \o (IF u[Len(u)] = "\n" THEN <<"\n">> ELSE <<>>)

\* if u.endswith("/"): u = u[:-1]
StripSlash(u) ==
    IF u # <<>> /\ u[Len(u)] = "/" THEN SubSeq(u, 1, Len(u) - 1) ELSE u

canonicalize_url(url) == StripSlash(StripQuery(StripScheme(Lower(Strip(url)))))


(***************************************************************************)
(* A Python dict, in insertion order: a sequence of <<key, value>> pairs.  *)
(***************************************************************************)
DictHas(d, key) == \E i \in 1..Len(d) : d[i][1] = key

\* d.get(key, default)
DictGet(d, key, default) ==
    IF DictHas(d, key) THEN d[CHOOSE i \in 1..Len(d) : d[i][1] = key][2] ELSE default

\* d[key] = val  (an existing key keeps its position)
DictSet(d, key, val) ==
    IF DictHas(d, key)
    THEN [i \in 1..Len(d) |-> IF d[i][1] = key THEN <<key, val>> ELSE d[i]]
    ELSE Append(d, <<key, val>>)

\* "for per_source in ranked_lists: for item in per_source": the items in visiting order
RECURSIVE Flatten(_)
Flatten(lists) == IF lists = <<>> THEN <<>> ELSE Head(lists) \o Flatten(Tail(lists))

(***************************************************************************)
(* fusion.py                                                               *)
(***************************************************************************)
\* 1.0 / (k + rank + 1): ranks counted from 0
RrfContributionOffByOne(kk, rank) == FRecip(kk + rank + 1)

\* 1.0 / (k + rank)
RrfContribution(kk, rank) == FRecip(kk + rank)

\* fused_scores[url] = x: the last occurrence alone
AccumulateOverwrite(d, url, x) == DictSet(d, url, x)

\* fused_scores[url] = fused_scores.get(url, 0.0) + x
Accumulate(d, url, x) == DictSet(d, url, FAdd(DictGet(d, url, FZero), x))

\* the dict key of an item, were fusion keyed like deduplicate
FusionKeyCanonical(item) == canonicalize_url(item.url)

\* the dict key of an item: str(item.get("url", ""))
FusionKey(item) == item.url

\* if url not in representative: representative[url] = item
KeepFirst(representative, url, item) ==
    IF DictHas(representative, url) THEN representative
    ELSE DictSet(representative, url, item)

\* the loop of rrf_fusion over the items still to visit: <<fused_scores, representative>>
RECURSIVE RrfLoop(_, _, _, _)
RrfLoop(items, kk, fused_scores, representative) ==
    IF items = <<>> THEN <<fused_scores, representative>>
    ELSE
        LET item == Head(items)
            url == FusionKey(item)
        IN  IF url = <<>>
            THEN RrfLoop(Tail(items), kk, fused_scores, representative)
            ELSE RrfLoop(Tail(items), kk,
                         Accumulate(fused_scores, url, RrfContribution(kk, item.rank)),
                         KeepFirst(representative, url, item))

\* (1.0 / max(rank, 1)) if not raw_score else float(raw_score)
CombsumContributionFalsy(item) ==
    IF item.score = None \/ item.score = FZero
    THEN FRecip(IF item.rank > 1 THEN item.rank ELSE 1)
    ELSE item.score

\* (1.0 / max(rank, 1)) if raw_score is None else float(raw_score)
CombsumContribution(item) ==
    IF item.score = None
    THEN FRecip(IF item.rank > 1 THEN item.rank ELSE 1)
    ELSE item.score

\* the loop of combsum_fusion over the items still to visit: <<sums, representative>>
RECURSIVE CombsumLoop(_, _, _)
CombsumLoop(items, sums, representative) ==
    IF items = <<>> THEN <<sums, representative>>
    ELSE
        LET item == Head(items)
            url == FusionKey(item)
        IN  IF url = <<>>
            THEN CombsumLoop(Tail(items), sums, representative)
            ELSE CombsumLoop(Tail(items),
                             Accumulate(sums, url, CombsumContribution(item)),
                             KeepFirst(representative, url, item))

\* Insert pair x behind every pair whose value is >= x's (ties keep their order).
RECURSIVE InsertDesc(_, _)
InsertDesc(sorted, x) ==
    IF sorted = <<>> THEN <<x>>
    ELSE IF FLess(Head(sorted)[2], x[2]) THEN <<x>> \o sorted
    ELSE <<Head(sorted)>> \o InsertDesc(Tail(sorted), x)

\* Insert pair x in front of the pairs whose value is <= x's (ties reversed).
RECURSIVE InsertDescFront(_, _)
InsertDescFront(sorted, x) ==
    IF sorted = <<>> THEN <<x>>
    ELSE IF FLeq(Head(sorted)[2], x[2]) THEN <<x>> \o sorted
    ELSE <<Head(sorted)>> \o InsertDescFront(Tail(sorted), x)

RECURSIVE SortedTiesReversedFrom(_, _)
SortedTiesReversedFrom(d, acc) ==
    IF d = <<>> THEN acc ELSE SortedTiesReversedFrom(Tail(d), InsertDescFront(acc, Head(d)))

SortedTiesReversed(d) == SortedTiesReversedFrom(d, <<>>)

RECURSIVE SortedFrom(_, _)
SortedFrom(d, acc) ==
    IF d = <<>> THEN acc ELSE SortedFrom(Tail(d), InsertDesc(acc, Head(d)))

\* sorted(d.items(), key=lambda x: x[1], reverse=True): stable, descending
Sorted(d) == SortedFrom(d, <<>>)

\* the output loop: a copy of each representative with rank, source and score set
FusedList(ordered, representative) ==
    [i \in 1..Len(ordered) |->
        [DictGet(representative, ordered[i][1], None)
            EXCEPT !.rank = i, !.source = "fused", !.score = ordered[i][2]]]

rrf_fusion(lists, kk) ==
    LET acc == RrfLoop(Flatten(lists), kk, <<>>, <<>>)
    IN  FusedList(Sorted(acc[1]), acc[2])

combsum_fusion(lists) ==
    LET acc == CombsumLoop(Flatten(lists), <<>>, <<>>)
    IN  FusedList(Sorted(acc[1]), acc[2])

(***************************************************************************)
(* utils.py: deduplicate and minmax_normalize_scores work on the dicts the *)
(* list refers to; h is the heap, res the list of object ids.              *)
(***************************************************************************)
\* the key of one item, were it "__empty__" for every url-less item
DedupKeySharedEmpty(h, id) ==
    IF h[id].url = <<>> THEN <<"__empty__">> ELSE canonicalize_url(h[id].url)

\* the key of one item: f"__empty__:{id(r)}" or canonicalize_url(url)
DedupKey(h, id) ==
    IF h[id].url = <<>> THEN <<"__empty__:", ToString(id)>> ELSE canonicalize_url(h[id].url)

\* the first loop of deduplicate: the list `unique`
RECURSIVE DedupLoop(_, _, _, _)
DedupLoop(h, res, seen, unique) ==
    IF res = <<>> THEN unique
    ELSE
        LET key == DedupKey(h, Head(res))
        IN  IF key \in seen
            THEN DedupLoop(h, Tail(res), seen, unique)
            ELSE DedupLoop(h, Tail(res), seen \cup {key}, Append(unique, Head(res)))

\* no renumbering
RenumberSkipped(h, res, unique) == h

\* renumbering by the position in the list received
RenumberByInput(h, res, unique) ==
    [id \in DOMAIN h |->
        IF \E i \in 1..Len(unique) : unique[i] = id
        THEN [h[id] EXCEPT !.rank = CHOOSE i \in 1..Len(res) :
                                        res[i] = id /\ \A j \in 1..(i - 1) : res[j] # id]
        ELSE h[id]]

\* for i, r in enumerate(unique, start=1): r["rank"] = i   -- the heap afterwards
Renumber(h, res, unique) ==
    [id \in DOMAIN h |->
        IF \E i \in 1..Len(unique) : unique[i] = id
        THEN [h[id] EXCEPT !.rank = CHOOSE i \in 1..Len(unique) :
                                        unique[i] = id /\ \A j \in (i + 1)..Len(unique) : unique[j] # id]
        ELSE h[id]]

\* deduplicate(results): <<heap afterwards, returned list>>
deduplicate(h, res) ==
    LET unique == DedupLoop(h, res, {}, <<>>)
    IN  <<Renumber(h, res, unique), unique>>

\* [float(r["score"]) for r in results if r.get("score") is not None]
RECURSIVE PresentScores(_, _)
PresentScores(h, res) ==
    IF res = <<>> THEN <<>>
    ELSE IF h[Head(res)].score = None THEN PresentScores(h, Tail(res))
    ELSE <<h[Head(res)].score>> \o PresentScores(h, Tail(res))

\* min(scores), max(scores) for a non-empty list
FMin(scores) == scores[CHOOSE i \in 1..Len(scores) : \A j \in 1..Len(scores) : FLeq(scores[i], scores[j])]
FMax(scores) == scores[CHOOSE i \in 1..Len(scores) : \A j \in 1..Len(scores) : FLeq(scores[j], scores[i])]

\* for r in results: if r.get("score") is not None: r["score"] = 1.0
RECURSIVE SetOnesLoop(_, _)
SetOnesLoop(h, res) ==
    IF res = <<>> THEN h
    ELSE IF h[Head(res)].score = None THEN SetOnesLoop(h, Tail(res))
    ELSE SetOnesLoop([h EXCEPT ![Head(res)].score = FOne], Tail(res))

\* for r in results: if r.get("score") is not None:
\*     r["score"] = (float(r["score"]) - lo) / rng
RECURSIVE RescaleLoop(_, _, _, _)
RescaleLoop(h, res, lo, rng) ==
    IF res = <<>> THEN h
    ELSE IF h[Head(res)].score = None THEN RescaleLoop(h, Tail(res), lo, rng)
    ELSE RescaleLoop([h EXCEPT ![Head(res)].score = FDiv(FSub(h[Head(res)].score, lo), rng)],
                     Tail(res), lo, rng)

\* minmax_normalize_scores(results): the heap afterwards (the same list is returned)
minmax_normalize_scores(h, res) ==
    LET scores == PresentScores(h, res)
    IN  IF scores = <<>> THEN h
        ELSE LET lo == FMin(scores)
                 hi == FMax(scores)
             IN  IF hi = lo THEN SetOnesLoop(h, res)
                 ELSE RescaleLoop(h, res, lo, FSub(hi, lo))


(***************************************************************************)
(* Inputs.                                                                 *)
(***************************************************************************)
MaxLists == 2       \* source lists per fusion call
MaxLen == 2         \* items per source list
MaxItems == 3       \* items per fusion call when ranks or scores are arbitrary
MaxRank == 2        \* rank values 0..MaxRank in those items
MaxObj == 4         \* Result objects, and list length, for a direct call of deduplicate
MaxScored == 3      \* Result objects, and list length, for a direct call of minmax_normalize_scores

\* k of rrf_fusion: the app's number_input allows 1..200 and defaults to 60
Ks == {2, 60}

Float(p, q) == FDiv(FromInt(p), FromInt(q))

UrlEmpty == <<>>
UrlA == <<"a", ".", "c", "o">>
UrlA2 == <<"A", ".", "c", "o", "/">>       \* another raw string with UrlA's canonical key
UrlB == <<"b", ".", "c", "o">>
Urls == {UrlEmpty, UrlA, UrlA2, UrlB}

SourceNames == <<"src1", "src2", "src3", "src4">>

\* what a source puts in an item, next to its position in the list
UrlPayloads == [url : Urls, rank : {-1}, score : {None}]

\* items without a native score, at any rank
RankPayloads == [url : Urls, rank : 0..MaxRank, score : {None}]

\* items at rank 2, with or without a native score
ScorePayloads == [url : {UrlA, UrlB}, rank : {2},
                  score : {None, FZero, Float(3, 10), Float(7, 10)}]

ListsOver(P) ==
    UNION {[1..n -> UNION {[1..m -> P] : m \in 0..MaxLen}] : n \in 0..MaxLists}

RECURSIVE TotalLen(_)
TotalLen(lists) == IF lists = <<>> THEN 0 ELSE Len(Head(lists)) + TotalLen(Tail(lists))

\* the Result dicts the sources build: title and source tell the occurrences
\* apart; a rank of -1 in the payload stands for "the 1-based position"
Tagged(lists) ==
    [li \in 1..Len(lists) |->
        [ii \in 1..Len(lists[li]) |->
            [title |-> <<li, ii>>, url |-> lists[li][ii].url,
             rank |-> IF lists[li][ii].rank = -1 THEN ii ELSE lists[li][ii].rank,
             source |-> SourceNames[li], score |-> lists[li][ii].score]]]

\* well-formed ranked lists (rank = position, as sources.py builds them), and
\* lists whose items carry arbitrary ranks or native scores
FusionInputs ==
    {Tagged(c) : c \in ListsOver(UrlPayloads)}
    \cup {Tagged(c) : c \in {x \in ListsOver(RankPayloads) : TotalLen(x) <= MaxItems}}
    \cup {Tagged(c) : c \in {x \in ListsOver(ScorePayloads) : TotalLen(x) <= MaxItems}}

\* objects for a direct call of deduplicate on a list: object i carries rank
\* ObjRanks[i] and score ObjScores[i]; the list may name an object more than
\* once and in any order, so the urls are dealt to the objects in one order
UrlOrder == <<UrlEmpty, UrlA, UrlA2, UrlB>>
ObjRanks == <<7, 1, 4, 2, 9, 3>>
ObjScores == <<None, Float(7, 10), Float(3, 10), None, FZero, FOne>>
DedupHeaps ==
    {[i \in 1..MaxObj |-> [title |-> <<0, i>>, url |-> UrlOrder[u[i]], rank |-> ObjRanks[i],
                           source |-> "src1", score |-> ObjScores[i]]] :
        u \in {x \in [1..MaxObj -> 1..Len(UrlOrder)] :
                    \A i \in 1..MaxObj, j \in 1..MaxObj : i < j => x[i] <= x[j]}}

\* objects for a direct call of minmax_normalize_scores on a list
ScoreObjects == {[title |-> <<0, 0>>, url |-> UrlA, rank |-> 1, source |-> "src1", score |-> sc] :
                    sc \in {None, FZero, Float(3, 10), Float(7, 10), FromInt(2)}}

\* lists of references to the objects 1..n: the same dict may be listed twice
IdLists(n) == UNION {[1..m -> 1..n] : m \in 0..n}

\* canonicalize_url arguments: lead \o scheme \o base \o slash \o tail \o trail,
\* with the letters of scheme and base in the given case
Leads == {<<>>, <<"\t", " ">>}
Trails == {<<>>, <<" ", "\n">>}
Schemes == {<<>>, HttpScheme, HttpsScheme, HttpScheme \o WwwDot, HttpsScheme \o WwwDot,
            WwwDot, <<"f", "t", "p", ":", "/", "/">>}
Bases == {<<"a", ".", "c", "o", "/", "p">>, <<"w", "w", "w", ".", "a", ".", "c", "o">>,
          <<>>, <<"a">>, <<"a", "\n", "b">>, <<"a", "/">>, <<"A">>, <<"a", "?", "b">>,
          HttpScheme \o <<"a">>, <<" ", "a">>}
Cases == {"lower", "upper", "mixed"}
Slashes == {<<>>, <<"/">>, <<"/", "/">>}
Tails == {<<>>, <<"?", "q", "=", "1">>, <<"#", "f">>, <<"?", "q", "#", "f">>,
          <<"?", "q", "\n", "x">>}

NoCall == [lead |-> <<>>, scheme |-> <<>>, base |-> <<>>, case |-> "lower",
           slash |-> <<>>, tail |-> <<>>, trail |-> <<>>]

ApplyCase(u, case) ==
    [i \in 1..Len(u) |->
        IF case = "upper" \/ (case = "mixed" /\ i % 2 = 1) THEN UpperChar(u[i]) ELSE u[i]]

UrlString(p) ==
    p.lead \o ApplyCase(p.scheme \o p.base, p.case) \o p.slash \o p.tail \o p.trail

(***************************************************************************)
(* app.py, "Search + Fusion Flow": fetch, fuse, de-duplicate.  op = "init" *)
(* is the flow after get_results_from_sources; op = "input" is a caller    *)
(* holding a list (or a string) it passes to a function of utils.py.       *)
(***************************************************************************)
InitFlow ==
    /\ ranked_lists \in FusionInputs
    /\ heap = <<>>
    /\ results = <<>>
    /\ op = "init"

InitList ==
    /\ ranked_lists = <<>>
    /\ heap \in DedupHeaps
    /\ results \in IdLists(MaxObj)
    /\ op = "input"

NoHistory ==
    /\ arg = <<>>
    /\ arg_heap = <<>>
    /\ method = "none"
    /\ k = 0
    /\ calls = 0
    /\ key_out = <<>>

Init ==
    /\ InitFlow \/ InitList
    /\ NoHistory
    /\ url_in = NoCall

\* the fused list becomes a list of fresh dicts
Fuse(fused, name, kk) ==
    /\ heap' = fused
    /\ results' = [i \in 1..Len(fused) |-> i]
    /\ arg' = <<>>
    /\ arg_heap' = <<>>
    /\ op' = name
    /\ method' = name
    /\ k' = kk
    /\ calls' = 0
    /\ UNCHANGED <<ranked_lists, url_in, key_out>>

\* fused = rrf_fusion(ranked_lists, k=rrf_k)
RrfFusion ==
    /\ op = "init"
    /\ \E kk \in Ks : Fuse(rrf_fusion(ranked_lists, kk), "rrf", kk)

\* fused = combsum_fusion(ranked_lists)
CombsumFusion ==
    /\ op = "init"
    /\ Fuse(combsum_fusion(ranked_lists), "combsum", 0)

\* fused = deduplicate(fused)
Deduplicate ==
    /\ op \in {"input", "rrf", "combsum", "dedup"}
    /\ LET out == deduplicate(heap, results)
       IN  /\ heap' = out[1]
           /\ results' = out[2]
    /\ arg' = results
    /\ arg_heap' = heap
    /\ op' = "dedup"
    /\ calls' = IF calls < 2 THEN calls + 1 ELSE 2
    /\ UNCHANGED <<ranked_lists, method, k, url_in, key_out>>

Next == RrfFusion \/ CombsumFusion \/ Deduplicate

Spec == Init /\ [][Next]_vars

(***************************************************************************)
(* A direct call of minmax_normalize_scores on a list.                     *)
(***************************************************************************)
InitNorm ==
    /\ ranked_lists = <<>>
    /\ heap \in [1..MaxScored -> ScoreObjects]
    /\ results \in IdLists(MaxScored)
    /\ op = "input"
    /\ NoHistory
    /\ url_in = NoCall

MinmaxNormalize ==
    /\ op = "input"
    /\ heap' = minmax_normalize_scores(heap, results)
    /\ arg' = results
    /\ arg_heap' = heap
    /\ op' = "minmax"
    /\ UNCHANGED <<ranked_lists, results, method, k, calls, url_in, key_out>>

NextNorm == MinmaxNormalize

SpecNorm == InitNorm /\ [][NextNorm]_vars

(***************************************************************************)
(* A direct call of canonicalize_url on a string.                          *)
(***************************************************************************)
InitCanon ==
    /\ ranked_lists = <<>>
    /\ heap = <<>>
    /\ results = <<>>
    /\ op = "input"
    /\ NoHistory
    /\ url_in \in [lead : Leads, scheme : Schemes, base : Bases, case : Cases,
                   slash : Slashes, tail : Tails, trail : Trails]

Canonicalize ==
    /\ op = "input"
    /\ key_out' = canonicalize_url(UrlString(url_in))
    /\ op' = "canon"
    /\ UNCHANGED <<ranked_lists, heap, results, arg, arg_heap, method, k, calls, url_in>>

NextCanon == Canonicalize

SpecCanon == InitCanon /\ [][NextCanon]_vars

(***************************************************************************)
(* Properties.  They are stated over the input and the output of a call,   *)
(* without the loops above that compute the output.                        *)
(***************************************************************************)
Items == Flatten(ranked_lists)
InputUrls == {Items[i].url : i \in 1..Len(Items)} \ {<<>>}
Positions(u) == {i \in 1..Len(Items) : Items[i].url = u}
FirstSeen(u) == CHOOSE i \in Positions(u) : \A j \in Positions(u) : i <= j
Occurrences(u) == SelectSeq(Items, LAMBDA it : it.url = u)
Out(i) == heap[results[i]]
ArgObj(i) == arg_heap[arg[i]]
Returned == {results[i] : i \in 1..Len(results)}

\* the binary64 sum 0.0 + t1 + t2 + ..., added in this order
RECURSIVE SumLeft(_, _)
SumLeft(terms, acc) ==
    IF terms = <<>> THEN acc ELSE SumLeft(Tail(terms), FAdd(acc, Head(terms)))

RrfTerms(u, kk) ==
    [i \in 1..Len(Occurrences(u)) |-> FRecip(kk + Occurrences(u)[i].rank)]

CombsumTerms(u) ==
    [i \in 1..Len(Occurrences(u)) |->
        LET it == Occurrences(u)[i]
        IN  IF it.score = None THEN FRecip(IF it.rank >= 1 THEN it.rank ELSE 1)
            ELSE it.score]

ExpectedScore(u) ==
    IF method = "rrf" THEN SumLeft(RrfTerms(u, k), FZero) ELSE SumLeft(CombsumTerms(u), FZero)

OneEntryPerUrl ==
    /\ Len(results) = Cardinality(InputUrls)
    /\ {Out(i).url : i \in 1..Len(results)} = InputUrls

\* C1: the list returned by rrf_fusion, by combsum_fusion, by deduplicate, and
\* by deduplicate applied to a fusion output, has rank i at position i, for
\* i = 1..M, whatever ranks the input carried.
C1_RanksContiguous ==
    op \in {"rrf", "combsum", "dedup"} =>
        \A i \in 1..Len(results) : Out(i).rank = i

\* deduplicate dropped the second of three fused entries: the third moved up
C1_Witness ==
    /\ op = "dedup"
    /\ method = "rrf"
    /\ Len(arg) = 3
    /\ results = <<arg[1], arg[3]>>
    /\ ArgObj(3).rank = 3
    /\ Out(2).rank = 2

\* C2: rrf_fusion returns one entry per distinct non-empty raw url; its score
\* is the sum of 1/(k + rank) over the occurrences of that url, its source is
\* "fused"; when every url occurs once, a smaller input rank gives a strictly
\* larger score.
C2_RrfScores ==
    op = "rrf" =>
        /\ OneEntryPerUrl
        /\ \A i \in 1..Len(results) :
              /\ Out(i).score = SumLeft(RrfTerms(Out(i).url, k), FZero)
              /\ Out(i).source = "fused"
        /\ (\A u \in InputUrls : Cardinality(Positions(u)) = 1) =>
              \A i \in 1..Len(results), j \in 1..Len(results) :
                  Items[FirstSeen(Out(i).url)].rank < Items[FirstSeen(Out(j).url)].rank
                      => FLess(Out(j).score, Out(i).score)

\* a url listed by both sources, next to an item without url
C2_Witness ==
    /\ op = "rrf"
    /\ Len(results) = 2
    /\ \E i \in 1..Len(Items) : Items[i].url = <<>>
    /\ \E i \in 1..Len(results) :
          /\ Cardinality(Positions(Out(i).url)) = 2
          /\ Out(i).score = FAdd(FRecip(k + 1), FRecip(k + 2))

\* C3: combsum_fusion returns one entry per distinct non-empty raw url; its
\* score is the sum over the occurrences of the item's score when it has one
\* (0 included) and of 1/max(rank, 1) when the score is None; both fusions
\* return the empty list when no item has a url.
C3_CombsumScores ==
    /\ op = "combsum" =>
          /\ OneEntryPerUrl
          /\ \A i \in 1..Len(results) :
                /\ Out(i).score = SumLeft(CombsumTerms(Out(i).url), FZero)
                /\ Out(i).source = "fused"
    /\ (op \in {"rrf", "combsum"} /\ InputUrls = {}) => results = <<>>

\* one url with scores 0.7 and 0.3 sums to 1.0; another has the score 0
C3_Witness ==
    /\ op = "combsum"
    /\ Len(results) = 2
    /\ Out(2).score = FZero
    /\ Occurrences(Out(2).url)[1].score = FZero
    /\ Len(Occurrences(Out(1).url)) = 2
    /\ Out(1).score = FOne
    /\ Occurrences(Out(1).url)[1].score # Occurrences(Out(1).url)[2].score

\* C4: a fusion output is ordered by non-increasing score, and urls with the
\* same score stand in the order of their first occurrence in the input.
C4_SortedStable ==
    op \in {"rrf", "combsum"} =>
        \A i \in 1..Len(results), j \in 1..Len(results) :
            i < j =>
                /\ FLeq(Out(j).score, Out(i).score)
                /\ Out(i).score = Out(j).score
                      => FirstSeen(Out(i).url) < FirstSeen(Out(j).url)

\* A = [a, b] and B = [b, a] at k = 60: the scores tie and a stays first
C4_Witness ==
    /\ op = "rrf"
    /\ k = 60
    /\ Len(ranked_lists) = 2
    /\ [i \in 1..Len(Items) |-> <<Items[i].url, Items[i].rank>>]
          = <<<<UrlA, 1>>, <<UrlB, 2>>, <<UrlB, 1>>, <<UrlA, 2>>>>
    /\ Out(1).score = Out(2).score
    /\ Out(1).url = UrlA
    /\ Out(2).url = UrlB

\* the positions of the argument list that deduplicate is to keep: the first
\* position of each canonical key, and the first position of each url-less dict
KeptPositions ==
    {i \in 1..Len(arg) :
        IF ArgObj(i).url = <<>>
        THEN \A j \in 1..(i - 1) : arg[j] # arg[i]
        ELSE \A j \in 1..(i - 1) :
                \/ ArgObj(j).url = <<>>
                \/ canonicalize_url(ArgObj(j).url) # canonicalize_url(ArgObj(i).url)}

RECURSIVE Pick(_, _, _)
Pick(seq, keep, i) ==
    IF i > Len(seq) THEN <<>>
    ELSE (IF i \in keep THEN <<seq[i]>> ELSE <<>>) \o Pick(seq, keep, i + 1)

C6_DedupIdempotent ==
    (op = "dedup" /\ calls = 2) => (results = arg /\ heap = arg_heap)

\* the second call in a row, after the first one dropped a fused entry
C6_Witness ==
    /\ op = "dedup"
    /\ calls = 2
    /\ method \in {"rrf", "combsum"}
    /\ Len(results) >= 2
    /\ Len(results) < Len(heap)
    /\ results = arg

\* the fused list for the source lists taken in the order p
Perms(n) == {p \in [1..n -> 1..n] : \A i \in 1..n, j \in 1..n : p[i] = p[j] => i = j}
Permuted(p) == [i \in 1..Len(ranked_lists) |-> ranked_lists[p[i]]]
Refused(p) ==
    IF method = "rrf" THEN rrf_fusion(Permuted(p), k) ELSE combsum_fusion(Permuted(p))

SameUrls(fused) ==
    {fused[i].url : i \in 1..Len(fused)} = {Out(i).url : i \in 1..Len(results)}

SameScores(fused) ==
    \A i \in 1..Len(fused), j \in 1..Len(results) :
        fused[i].url = Out(j).url => fused[i].score = Out(j).score

\* position by position the same score, and another url only within a tie
TieOrderOnly(fused) ==
    /\ Len(fused) = Len(results)
    /\ \A i \in 1..Len(results) :
          /\ fused[i].score = Out(i).score
          /\ fused[i].source = Out(i).source
          /\ fused[i].rank = Out(i).rank
          /\ fused[i].url # Out(i).url
                => \E j \in 1..Len(results) : j # i /\ Out(j).score = Out(i).score

\* C7 as the specification states it: taking the source lists in another
\* order changes neither the urls of the output nor the score of any url,
\* only the order among urls of equal score.
C7_PermutationInvariant ==
    op \in {"rrf", "combsum"} =>
        \A p \in Perms(Len(ranked_lists)) :
            /\ SameUrls(Refused(p))
            /\ SameScores(Refused(p))
            /\ TieOrderOnly(Refused(p))

\* C7: taking the source lists in another order does not change the urls of
\* the output; when no url occurs more than twice in the input, it does not
\* change any url's score either, only the order among urls of equal score.
C7_PermutationInvariantUpToTwo ==
    op \in {"rrf", "combsum"} =>
        \A p \in Perms(Len(ranked_lists)) :
            /\ SameUrls(Refused(p))
            /\ (\A u \in InputUrls : Cardinality(Positions(u)) <= 2) =>
                  /\ SameScores(Refused(p))
                  /\ TieOrderOnly(Refused(p))

\* two sources listing a and b at different ranks; swapped, the tie between
\* them resolves the other way and the scores stay
C7_Witness ==
    /\ op = "rrf"
    /\ Len(ranked_lists) = 2
    /\ Len(results) = 2
    /\ \A u \in InputUrls : Cardinality(Positions(u)) = 2
    /\ Out(1).score = Out(2).score
    /\ Refused(<<2, 1>>)[1].url = Out(2).url
    /\ Refused(<<2, 1>>)[1].score = Out(1).score

\* C10: in the pipeline fusion-then-deduplicate, raw urls with one canonical
\* key are fused as separate entries, each with the score of its own
\* occurrences; deduplicate keeps the one earlier in the fused order, with that
\* score; the final list is non-increasing in score and no two of its entries
\* share a canonical key.
C10_PipelineKeepsOwnScore ==
    (op = "dedup" /\ calls = 1 /\ method \in {"rrf", "combsum"}) =>
        /\ {ArgObj(i).url : i \in 1..Len(arg)} = InputUrls
        /\ \A i \in 1..Len(arg) : ArgObj(i).score = ExpectedScore(ArgObj(i).url)
        /\ \A i \in 1..Len(arg) :
              arg[i] \in Returned <=>
                  \A j \in 1..(i - 1) :
                      canonicalize_url(ArgObj(j).url) # canonicalize_url(ArgObj(i).url)
        /\ \A i \in 1..Len(results) : Out(i).score = ExpectedScore(Out(i).url)
        /\ \A i \in 1..Len(results), j \in 1..Len(results) :
              i < j =>
                  /\ FLeq(Out(j).score, Out(i).score)
                  /\ canonicalize_url(Out(i).url) # canonicalize_url(Out(j).url)

\* "a.co" and "A.co/" fused with different scores; the higher one survives
C10_Witness ==
    /\ op = "dedup"
    /\ calls = 1
    /\ method = "rrf"
    /\ \E i \in 1..Len(arg), j \in 1..Len(arg) :
          /\ i < j
          /\ ArgObj(i).url # ArgObj(j).url
          /\ canonicalize_url(ArgObj(i).url) = canonicalize_url(ArgObj(j).url)
          /\ FLess(ArgObj(j).score, ArgObj(i).score)
          /\ Len(Occurrences(ArgObj(j).url)) = 2
          /\ arg[i] \in Returned
          /\ arg[j] \notin Returned
          /\ heap[arg[i]].score = ArgObj(i).score

\* a base string in the sense of the specification: lower case, no
\* surrounding whitespace, no scheme, no "?" or "#", not ending in "/"
IsBase(b) ==
    /\ Lower(b) = b
    /\ (b = <<>> \/ (b[1] \notin Whitespace /\ b[Len(b)] \notin Whitespace))
    /\ \A i \in 1..Len(b) : b[i] \notin {"?", "#"}
    /\ ~\E i \in 1..(Len(b) - 2) : SubSeq(b, i, i + 2) = <<":", "/", "/">>
    /\ (b = <<>> \/ b[Len(b)] # "/")

\* the variants the specification lists: "http://" or "https://" in front,
\* with or without "www.", any letter case, whitespace around, at most one
\* "/" behind, a query string or fragment (of one line) behind that
IsListedVariant(p) ==
    /\ p.scheme \in {<<>>, HttpScheme, HttpsScheme, HttpScheme \o WwwDot, HttpsScheme \o WwwDot}
    /\ p.slash \in {<<>>, <<"/">>}
    /\ p.tail # <<>> => p.tail[1] \in {"?", "#"}
    /\ \A i \in 1..Len(p.tail) : p.tail[i] # "\n"
    /\ \A i \in 1..Len(p.lead) : p.lead[i] \in Whitespace
    /\ \A i \in 1..Len(p.trail) : p.trail[i] \in Whitespace

ScoresBefore == {arg_heap[arg[i]].score : i \in 1..Len(arg)} \ {None}
LowBefore == CHOOSE x \in ScoresBefore : \A y \in ScoresBefore : FLeq(x, y)
HighBefore == CHOOSE x \in ScoresBefore : \A y \in ScoresBefore : FLeq(y, x)

\* C9: minmax_normalize_scores returns the list it was given and touches only
\* scores; a score of None stays None; with no score present nothing changes;
\* when all present scores are equal each becomes 1.0; otherwise each present
\* score s becomes (s - min) / (max - min), a value between 0 and 1.
C9_MinmaxRescales ==
    op = "minmax" =>
        /\ results = arg
        /\ \A id \in DOMAIN heap : heap[id] = [arg_heap[id] EXCEPT !.score = heap[id].score]
        /\ \A i \in 1..Len(arg) :
              LET before == arg_heap[arg[i]].score
                  after == heap[arg[i]].score
              IN  IF before = None THEN after = None
                  ELSE IF LowBefore = HighBefore THEN after = FOne
                  ELSE /\ after = FDiv(FSub(before, LowBefore), FSub(HighBefore, LowBefore))
                       /\ FLeq(FZero, after)
                       /\ FLeq(after, FOne)

====
